---- MODULE Spec2Model ----
(***************************************************************************)
(* Model of brsc2909/twitter-analysis: the sqlite store (database.py) with *)
(* its sentiment updates, paged reads and transactional batch writes, the  *)
(* rate-limited search cursor and the record parser (twitter.py) and the   *)
(* three-phase crawl (main.py).                                            *)
(***************************************************************************)
EXTENDS Integers, Sequences, FiniteSets, TLC

(***************************************************************************)
(* Bounds of the model.                                                    *)
(***************************************************************************)
MaxId == 2          \* post ids 1..MaxId in the posts/replies specification
MaxBatch == 2       \* longest batch handed to one executemany
MaxTopId == 3       \* post ids in the ranking specification
MaxUserId == 3      \* user ids in the users specification
MaxCount == 1       \* largest like / quote counter of an inserted post
SEC == 1            \* Duration.SECOND: the clock of the model ticks in seconds
HOUR_QUARTER == 3   \* seconds of the long rate window (900 in the code)
RATE_LIMIT == 2     \* requests allowed per long window (300 in the code)
MaxDelay == 1       \* longest round trip / page processing time, in ticks
MaxPages == 3       \* longest page chain the remote serves for one query
MaxLimit == 2       \* largest item limit handed to search()
MaxRejects == 2     \* most 429 answers the remote gives one cursor
SeedTweets == 20    \* top-level posts a database file may hold when main starts
MaxTags == 2        \* most hashtags of one raw post
MaxUrls == 2        \* most urls of one raw post
MaxRows == 4        \* most rows a paged query returns
MaxPageSize == 3    \* largest batch_size of a paged query

\* SQL NULL / Python None.  Ids, counters and field values are positive or
\* zero-based naturals taken from the API; 0 never is an id.
NULL == 0

Min(a, b) == IF a < b THEN a ELSE b

VARIABLES
    tweets,      \* table tweets:  id -> row
    replies,     \* table replies: id -> row
    users,       \* table users:   id -> row
    ret,         \* return value of the last Database call
    firstTweet,  \* history: id -> row of the first insertion into tweets
    firstReply,  \* history: id -> row of the first insertion into replies
    lastUser,    \* history: id -> row of the latest insertion into users
    rewritten,   \* history: some insert met a stored id with other values
    bucket,      \* limiter bucket "identity": ages of its items, newest first
    reqLog,      \* history: ages of the HTTP requests sent, newest first
    sinceT,      \* ticks since search() last took t = time(), up to SEC
    spc,         \* where the search() generator stands
    limit,       \* search(limit=..), NULL for None
    payload,     \* payload["next_token"], NULL while absent
    results,     \* the page the last successful call returned, 0 before it
    tweet_count, \* search()'s tweet_count
    remote,      \* the remote's page chain for the query: items per page
    rejects,     \* 429 answers the remote gave this cursor
    yielded,     \* history: the pages search() yielded, in order
    issued,      \* history: token and tweet_count of every request sent
    raisedBy,    \* what search() raised: "none", "ratelimit" or "failure"
    mpc,         \* where main stands: "search", "top", "replies", "missing"
    stage,       \* main's step on the current page: "pull", "tweets", "users", "next"
    top,         \* the rows of get_top_replied main has still to crawl
    query,       \* the conversation of the running reply search, NULL for the primary query
    exit,        \* how the process ended: "running", "0" or the exception
    pastEmpty,   \* history: the primary search requested on after an empty page
    txn,         \* the connection's open transaction and what became of it
    rawPage,     \* the raw page handed to process_batch_tweets
    parsed,      \* what process_batch_tweets returned or raised
    paged        \* the generator get_paged_query returned

storeVars == <<tweets, replies, users, ret>>
histVars == <<firstTweet, firstReply, lastUser, rewritten>>
limiterVars == <<bucket, reqLog, sinceT>>
cursorVars ==
    <<spc, limit, payload, results, tweet_count, remote, rejects, yielded,
      issued, raisedBy>>
mainVars == <<mpc, stage, top, query, exit, pastEmpty>>
crawlVars == <<limiterVars, cursorVars, mainVars>>
otherVars == <<txn, rawPage, parsed, paged>>
vars == <<storeVars, histVars, crawlVars, otherVars>>

EmptyTable == <<>>

\* what a write returns (None)
NoResult == [op |-> "none"]

\* no transaction open, no page parsed, no paged query running
NoTxn == [state |-> "none", op |-> "none", batch |-> <<>>]
NoPage == [tweets |-> <<>>, users |-> <<>>]
NotParsed == [exc |-> "pending", tweets |-> <<>>, users |-> <<>>]
NoPager ==
    [state |-> "none", result |-> <<>>, fetched |-> 0, batch_size |-> 1,
     pages |-> <<>>]

(***************************************************************************)
(* Rows.  A row handed to an INSERT is a Python dict: a record whose       *)
(* DOMAIN is the dict's key set.                                           *)
(***************************************************************************)
\* the named parameters INSERT_TWEET_DML / INSERT_REPLIES_DML bind
POST_KEYS ==
    {"id", "parent_id", "conversation_id", "author", "url", "tweet_text",
     "timestamp", "hashtags", "mentions", "urls", "images", "videos",
     "location", "likes", "replies", "retweets", "quotes", "sentiment",
     "sentiment_score"}

\* the named parameters INSERT_USER_DML binds
USER_KEYS ==
    {"id", "username", "name", "verified", "location", "following",
     "followers", "date_joined", "bio"}

\* the mutable columns of users: every column but the key
USER_MUTABLE == USER_KEYS \ {"id"}

PostRow(id, conv, likes, retweets, quotes) ==
    [id |-> id, parent_id |-> NULL, conversation_id |-> conv, author |-> 1,
     url |-> id, tweet_text |-> id, timestamp |-> 1, hashtags |-> NULL,
     mentions |-> NULL, urls |-> NULL, images |-> 0, videos |-> 0,
     location |-> NULL, likes |-> likes, replies |-> 0,
     retweets |-> retweets, quotes |-> quotes, sentiment |-> 1,
     sentiment_score |-> 1]

UserRow(id, a, b) ==
    [id |-> id, username |-> a, name |-> a, verified |-> a, location |-> a,
     following |-> b, followers |-> b, date_joined |-> b, bio |-> b]

\* sqlite3 raises ProgrammingError when a dict lacks a named parameter
BindingError(keys, batch) ==
    \E i \in 1..Len(batch) : ~(keys \subseteq DOMAIN batch[i])

\* all sequences over S of length 0..n
SeqsUpTo(S, n) == UNION {[1..k -> S] : k \in 0..n}

(***************************************************************************)
(* The statements.                                                         *)
(***************************************************************************)
INSERT_TWEET_DML_replace(tbl, row) ==
    IF row.id \in DOMAIN tbl
    THEN [tbl EXCEPT ![row.id] = [k \in POST_KEYS |-> row[k]]]
    ELSE tbl @@ (row.id :> [k \in POST_KEYS |-> row[k]])

\* INSERT ... ON CONFLICT (id) DO NOTHING
INSERT_TWEET_DML(tbl, row) ==
    IF row.id \in DOMAIN tbl
    THEN tbl
    ELSE tbl @@ (row.id :> [k \in POST_KEYS |-> row[k]])

INSERT_REPLIES_DML(tbl, row) ==
    IF row.id \in DOMAIN tbl
    THEN tbl
    ELSE tbl @@ (row.id :> [k \in POST_KEYS |-> row[k]])

\* INSERT ... ON CONFLICT (id) DO UPDATE SET <every mutable column>
INSERT_USER_DML_keepbio(tbl, row) ==
    IF row.id \in DOMAIN tbl
    THEN [tbl EXCEPT ![row.id] =
             [k \in USER_KEYS |->
                 IF k \in USER_MUTABLE \ {"bio"} THEN row[k] ELSE @[k]]]
    ELSE tbl @@ (row.id :> [k \in USER_KEYS |-> row[k]])

INSERT_USER_DML(tbl, row) ==
    IF row.id \in DOMAIN tbl
    THEN [tbl EXCEPT ![row.id] =
             [k \in USER_KEYS |-> IF k \in USER_MUTABLE THEN row[k] ELSE @[k]]]
    ELSE tbl @@ (row.id :> [k \in USER_KEYS |-> row[k]])

\* the named parameters the two UPDATE statements bind
SENTIMENT_KEYS == {"id", "sentiment", "sentiment_score"}

UPDATE_TWEET_SENTIMENT_DML_allrows(tbl, row) ==
    [id \in DOMAIN tbl |->
        [tbl[id] EXCEPT !.sentiment = row.sentiment,
                        !.sentiment_score = row.sentiment_score]]

\* UPDATE tweets SET sentiment = .., sentiment_score = .. WHERE id = :id
UPDATE_TWEET_SENTIMENT_DML(tbl, row) ==
    [id \in DOMAIN tbl |->
        IF id = row.id
        THEN [tbl[id] EXCEPT !.sentiment = row.sentiment,
                             !.sentiment_score = row.sentiment_score]
        ELSE tbl[id]]

\* UPDATE replies SET sentiment = .., sentiment_score = .. WHERE id = :id
UPDATE_REPLIES_SENTIMENT_DML(tbl, row) ==
    [id \in DOMAIN tbl |->
        IF id = row.id
        THEN [tbl[id] EXCEPT !.sentiment = row.sentiment,
                             !.sentiment_score = row.sentiment_score]
        ELSE tbl[id]]

\* cursor.executemany(dml, batch): the statement once per row, in order
RECURSIVE executemany_tweets(_, _)
executemany_tweets(tbl, batch) ==
    IF batch = <<>> THEN tbl
    ELSE executemany_tweets(INSERT_TWEET_DML(tbl, Head(batch)), Tail(batch))

RECURSIVE executemany_replies(_, _)
executemany_replies(tbl, batch) ==
    IF batch = <<>> THEN tbl
    ELSE executemany_replies(INSERT_REPLIES_DML(tbl, Head(batch)), Tail(batch))

RECURSIVE executemany_users(_, _)
executemany_users(tbl, batch) ==
    IF batch = <<>> THEN tbl
    ELSE executemany_users(INSERT_USER_DML(tbl, Head(batch)), Tail(batch))

RECURSIVE executemany_tweet_sentiment(_, _)
executemany_tweet_sentiment(tbl, batch) ==
    IF batch = <<>> THEN tbl
    ELSE executemany_tweet_sentiment(
             UPDATE_TWEET_SENTIMENT_DML(tbl, Head(batch)), Tail(batch))

RECURSIVE executemany_replies_sentiment(_, _)
executemany_replies_sentiment(tbl, batch) ==
    IF batch = <<>> THEN tbl
    ELSE executemany_replies_sentiment(
             UPDATE_REPLIES_SENTIMENT_DML(tbl, Head(batch)), Tail(batch))

(***************************************************************************)
(* History of the insertions, kept beside the tables.                      *)
(***************************************************************************)
BatchIds(batch) == {batch[i].id : i \in 1..Len(batch)}

FirstIndex(batch, id) ==
    CHOOSE i \in 1..Len(batch) :
        /\ batch[i].id = id
        /\ \A j \in 1..(i - 1) : batch[j].id # id

LastIndex(batch, id) ==
    CHOOSE i \in 1..Len(batch) :
        /\ batch[i].id = id
        /\ \A j \in (i + 1)..Len(batch) : batch[j].id # id

FirstSeen(first, batch) ==
    [id \in DOMAIN first \cup BatchIds(batch) |->
        IF id \in DOMAIN first THEN first[id]
        ELSE batch[FirstIndex(batch, id)]]

LastSeen(last, batch) ==
    [id \in DOMAIN last \cup BatchIds(batch) |->
        IF id \in BatchIds(batch) THEN batch[LastIndex(batch, id)]
        ELSE last[id]]

\* the batch presents a stored id, or the same id twice, with other values
Rewrites(tbl, batch) ==
    \E i \in 1..Len(batch) :
        \/ /\ batch[i].id \in DOMAIN tbl
           /\ tbl[batch[i].id] # batch[i]
        \/ \E j \in 1..(i - 1) :
              batch[j].id = batch[i].id /\ batch[j] # batch[i]

(***************************************************************************)
(* The queries.                                                            *)
(***************************************************************************)
\* ORDER BY likes + retweets + quotes
Engagement(row) == row.likes + row.retweets + row.quotes

EngagementLikesOnly(row) == row.likes

OrderKey(row) == Engagement(row)

\* The position of row id in "SELECT .. FROM tweets ORDER BY key DESC": the
\* table is scanned in rowid (= id) order and sqlite's sorter keeps rows of
\* equal key in scan order.
RankOf(tbl, id) ==
    Cardinality({j \in DOMAIN tbl :
        \/ OrderKey(tbl[j]) > OrderKey(tbl[id])
        \/ OrderKey(tbl[j]) = OrderKey(tbl[id]) /\ j < id})

Ordered(tbl) ==
    [i \in 1..Cardinality(DOMAIN tbl) |->
        CHOOSE id \in DOMAIN tbl : RankOf(tbl, id) = i - 1]

\* LIMIT (SELECT CAST(COUNT(*) * :top_percent / 100.0 AS int) FROM tweets):
\* the real quotient truncated towards zero
TopLimitIntDiv(n, top_percent) == n * (top_percent \div 100)

TopLimit(n, top_percent) == (n * top_percent) \div 100

\* SELECT DISTINCT id, conversation_id FROM (.. ORDER BY .. LIMIT ..)
TOP_REPLIED_DML(tbl, top_percent) ==
    LET sorted == Ordered(tbl)
        k == Min(TopLimit(Cardinality(DOMAIN tbl), top_percent), Len(sorted))
    IN  [i \in 1..k |-> <<sorted[i], tbl[sorted[i]].conversation_id>>]

\* x NOT IN (SELECT id FROM tweets): true on an empty list whatever x is,
\* unknown (the row is dropped) for a NULL x, else x not among the ids
NotInIds(x, ids) ==
    IF ids = {} THEN TRUE
    ELSE IF x = NULL THEN FALSE
    ELSE x \notin ids

\* SELECT DISTINCT conversation_id FROM replies WHERE conversation_id NOT IN ..
MISSING_CONVERSATION_TWEETS_DML(tw, rp) ==
    {rp[i].conversation_id : i \in {j \in DOMAIN rp :
        NotInIds(rp[j].conversation_id, DOMAIN tw)}}

(***************************************************************************)
(* Database methods.                                                       *)
(***************************************************************************)
insert_tweets(batch) ==
    /\ ~BindingError(POST_KEYS, batch)
    /\ tweets' = executemany_tweets(tweets, batch)
    /\ ret' = NoResult
    /\ firstTweet' = FirstSeen(firstTweet, batch)
    /\ rewritten' = (rewritten \/ Rewrites(tweets, batch))
    /\ UNCHANGED <<replies, users, firstReply, lastUser>>

insert_replies(batch) ==
    /\ ~BindingError(POST_KEYS, batch)
    /\ replies' = executemany_replies(replies, batch)
    /\ ret' = NoResult
    /\ firstReply' = FirstSeen(firstReply, batch)
    /\ rewritten' = (rewritten \/ Rewrites(replies, batch))
    /\ UNCHANGED <<tweets, users, firstTweet, lastUser>>

insert_users(batch) ==
    /\ ~BindingError(USER_KEYS, batch)
    /\ users' = executemany_users(users, batch)
    /\ ret' = NoResult
    /\ lastUser' = LastSeen(lastUser, batch)
    /\ rewritten' = (rewritten \/ Rewrites(users, batch))
    /\ UNCHANGED <<tweets, replies, firstTweet, firstReply>>

\* executemany(UPDATE_TWEET_SENTIMENT_DML, batch); commit()
set_tweet_sentiment(batch) ==
    /\ ~BindingError(SENTIMENT_KEYS, batch)
    /\ tweets' = executemany_tweet_sentiment(tweets, batch)
    /\ ret' = NoResult
    /\ txn' = [state |-> "committed", op |-> "set_tweet_sentiment",
               batch |-> batch]
    /\ UNCHANGED <<replies, users, histVars>>

\* executemany(UPDATE_REPLIES_SENTIMENT_DML, batch); commit()
set_replies_sentiment(batch) ==
    /\ ~BindingError(SENTIMENT_KEYS, batch)
    /\ replies' = executemany_replies_sentiment(replies, batch)
    /\ ret' = NoResult
    /\ txn' = [state |-> "committed", op |-> "set_replies_sentiment",
               batch |-> batch]
    /\ UNCHANGED <<tweets, users, histVars>>

get_top_replied(top_percent) ==
    /\ ret' = [op |-> "top", top_percent |-> top_percent,
               rows |-> TOP_REPLIED_DML(tweets, top_percent)]
    /\ UNCHANGED <<tweets, replies, users, histVars>>

\* the pages of get_paged_query(MISSING_CONVERSATION_TWEETS_DML), taken together
get_missing_tweets ==
    /\ ret' = [op |-> "missing",
               rows |-> MISSING_CONVERSATION_TWEETS_DML(tweets, replies)]
    /\ UNCHANGED <<tweets, replies, users, histVars>>

(***************************************************************************)
(* Specifications of the store: a caller of Database drawing its batches   *)
(* from small sets of rows.                                                *)
(***************************************************************************)
\* no crawl is running
IdleCrawl ==
    /\ bucket = <<>>
    /\ reqLog = <<>>
    /\ sinceT = 0
    /\ spc = "none"
    /\ limit = NULL
    /\ payload = NULL
    /\ results = 0
    /\ tweet_count = 0
    /\ remote = <<>>
    /\ rejects = 0
    /\ yielded = <<>>
    /\ issued = <<>>
    /\ raisedBy = "none"
    /\ mpc = "none"
    /\ stage = "pull"
    /\ top = <<>>
    /\ query = NULL
    /\ exit = "running"
    /\ pastEmpty = FALSE

\* nor any other call
InitIdle ==
    /\ IdleCrawl
    /\ txn = NoTxn
    /\ rawPage = NoPage
    /\ parsed = NotParsed
    /\ paged = NoPager

InitStore ==
    /\ InitIdle
    /\ tweets = EmptyTable
    /\ replies = EmptyTable
    /\ users = EmptyTable
    /\ ret = NoResult
    /\ firstTweet = EmptyTable
    /\ firstReply = EmptyTable
    /\ lastUser = EmptyTable
    /\ rewritten = FALSE

\* posts and replies
\* a reply references no conversation, or conversation 1, which may or
\* may not be stored as a top-level post
TweetRows == {PostRow(id, id, l, 0, 0) : id \in 1..MaxId, l \in {0, MaxCount}}
ReplyRows == {PostRow(id, c, 0, 0, 0) : id \in 1..MaxId, c \in {NULL, 1}}

PostsInsertTweets ==
    /\ \E batch \in SeqsUpTo(TweetRows, MaxBatch) : insert_tweets(batch)
    /\ UNCHANGED <<crawlVars, otherVars>>

PostsInsertReplies ==
    /\ \E batch \in SeqsUpTo(ReplyRows, MaxBatch) : insert_replies(batch)
    /\ UNCHANGED <<crawlVars, otherVars>>

PostsGetMissing == get_missing_tweets /\ UNCHANGED <<crawlVars, otherVars>>

NextPosts == PostsInsertTweets \/ PostsInsertReplies \/ PostsGetMissing
SpecPosts == InitStore /\ [][NextPosts]_vars

\* users
UserRows == {UserRow(id, a, b) : id \in 1..MaxUserId, a \in 1..2, b \in 1..2}

UsersInsertUsers ==
    /\ \E batch \in SeqsUpTo(UserRows, MaxBatch) : insert_users(batch)
    /\ UNCHANGED <<crawlVars, otherVars>>

NextUsers == UsersInsertUsers
SpecUsers == InitStore /\ [][NextUsers]_vars

\* ranking
\* a post has no engagement, or MaxCount likes, or MaxCount quotes
TopRows ==
    {PostRow(id, id, c[1], 0, c[2]) :
        id \in 1..MaxTopId, c \in {<<0, 0>>, <<MaxCount, 0>>, <<0, MaxCount>>}}
Percents == {0, 5, 50, 100}

TopInsertTweets ==
    /\ \E row \in TopRows : insert_tweets(<<row>>)
    /\ UNCHANGED <<crawlVars, otherVars>>

TopGetTopReplied ==
    /\ \E p \in Percents : get_top_replied(p)
    /\ UNCHANGED <<crawlVars, otherVars>>

NextTop == TopInsertTweets \/ TopGetTopReplied
SpecTop == InitStore /\ [][NextTop]_vars

\* sentiment updates, on a store that holds posts, replies and a user
\* a table holding some of the posts 1..MaxId, each as it was inserted
StoredPosts == {[id \in ids |-> PostRow(id, id, 0, 0, 0)] : ids \in SUBSET (1..MaxId)}

\* (id, label, score) of an update; the id may or may not be stored
SentimentRows ==
    {[id |-> id, sentiment |-> v, sentiment_score |-> v] :
        id \in 1..MaxId, v \in 1..2}

InitSentiment ==
    /\ InitIdle
    /\ tweets \in StoredPosts
    /\ replies \in StoredPosts
    /\ users = (1 :> UserRow(1, 1, 1))
    /\ ret = NoResult
    /\ firstTweet = tweets
    /\ firstReply = replies
    /\ lastUser = users
    /\ rewritten = FALSE

SentimentSetTweet ==
    /\ txn.state = "none"
    /\ \E batch \in SeqsUpTo(SentimentRows, MaxBatch) : set_tweet_sentiment(batch)
    /\ UNCHANGED <<crawlVars, rawPage, parsed, paged>>

SentimentSetReplies ==
    /\ txn.state = "none"
    /\ \E batch \in SeqsUpTo(SentimentRows, MaxBatch) : set_replies_sentiment(batch)
    /\ UNCHANGED <<crawlVars, rawPage, parsed, paged>>

\* the caller has its return and is free to call again
SentimentReturn ==
    /\ txn.state = "committed"
    /\ txn' = NoTxn
    /\ UNCHANGED <<storeVars, histVars, crawlVars, rawPage, parsed, paged>>

NextSentiment == SentimentSetTweet \/ SentimentSetReplies \/ SentimentReturn
SpecSentiment == InitSentiment /\ [][NextSentiment]_vars

\* batch writes and crashes.  The tables are the database file; the rows an
\* executemany has written so far live in the connection's open transaction
\* (txn.work) until conn.commit().
WRITES == {"insert_tweets", "insert_replies", "insert_users"}

TableOf(op) ==
    IF op = "insert_tweets" THEN tweets
    ELSE IF op = "insert_replies" THEN replies
    ELSE users

\* one statement of the executemany of op
Statement(op, tbl, row) ==
    IF op = "insert_tweets" THEN INSERT_TWEET_DML(tbl, row)
    ELSE IF op = "insert_replies" THEN INSERT_REPLIES_DML(tbl, row)
    ELSE INSERT_USER_DML(tbl, row)

\* the whole executemany of op
Executemany(op, tbl, batch) ==
    IF op = "insert_tweets" THEN executemany_tweets(tbl, batch)
    ELSE IF op = "insert_replies" THEN executemany_replies(tbl, batch)
    ELSE executemany_users(tbl, batch)

OnDisk_autocommit(committed, work) == work

\* what the file holds while a transaction is open: sqlite3 begins a
\* transaction before the first INSERT and nothing reaches the tables
\* before conn.commit()
OnDisk(committed, work) == committed

\* cursor = self.conn.cursor(); the executemany is about to run
write_begin(op, batch) ==
    /\ txn.state = "none"
    /\ txn' = [state |-> "open", op |-> op, batch |-> batch, done |-> 0,
               work |-> TableOf(op), base |-> TableOf(op)]
    /\ UNCHANGED <<storeVars, histVars>>

\* cursor.executemany: the statement for the next row of the batch
write_execute ==
    /\ txn.state = "open"
    /\ txn.done < Len(txn.batch)
    /\ txn' = [txn EXCEPT
                 !.done = @ + 1,
                 !.work = Statement(txn.op, @, txn.batch[txn.done + 1])]
    /\ tweets' = IF txn.op = "insert_tweets"
                 THEN OnDisk(tweets, txn'.work) ELSE tweets
    /\ replies' = IF txn.op = "insert_replies"
                  THEN OnDisk(replies, txn'.work) ELSE replies
    /\ users' = IF txn.op = "insert_users"
                THEN OnDisk(users, txn'.work) ELSE users
    /\ UNCHANGED <<ret, histVars>>

\* self.conn.commit()
write_commit ==
    /\ txn.state = "open"
    /\ txn.done = Len(txn.batch)
    /\ txn' = [txn EXCEPT !.state = "committed"]
    /\ tweets' = IF txn.op = "insert_tweets" THEN txn.work ELSE tweets
    /\ replies' = IF txn.op = "insert_replies" THEN txn.work ELSE replies
    /\ users' = IF txn.op = "insert_users" THEN txn.work ELSE users
    /\ ret' = NoResult
    /\ UNCHANGED histVars

\* the process dies, at any statement, before or after the commit: the open
\* transaction is gone and the file is what it was
write_crash ==
    /\ txn.state \in {"open", "committed"}
    /\ txn' = [txn EXCEPT !.state = "crashed"]
    /\ UNCHANGED <<storeVars, histVars>>

\* a new process writes the same batch again, uninterrupted
write_replay ==
    /\ txn.state = "crashed"
    /\ txn' = [txn EXCEPT !.state = "replayed"]
    /\ tweets' = IF txn.op = "insert_tweets"
                 THEN executemany_tweets(tweets, txn.batch) ELSE tweets
    /\ replies' = IF txn.op = "insert_replies"
                  THEN executemany_replies(replies, txn.batch) ELSE replies
    /\ users' = IF txn.op = "insert_users"
                THEN executemany_users(users, txn.batch) ELSE users
    /\ ret' = NoResult
    /\ UNCHANGED histVars

CrashUserRows == {UserRow(id, a, a) : id \in 1..MaxId, a \in 1..2}

BatchesOf(op) ==
    IF op = "insert_tweets" THEN SeqsUpTo(TweetRows, MaxBatch)
    ELSE IF op = "insert_replies" THEN SeqsUpTo(ReplyRows, MaxBatch)
    ELSE SeqsUpTo(CrashUserRows, MaxBatch)

InitCrash ==
    /\ InitIdle
    /\ \E ids \in SUBSET (1..MaxId) :
          /\ tweets = [id \in ids |-> PostRow(id, id, 0, 0, 0)]
          /\ replies = [id \in ids |-> PostRow(id, id, 0, 0, 0)]
          /\ users = [id \in ids |-> UserRow(id, 1, 1)]
    /\ ret = NoResult
    /\ firstTweet = tweets
    /\ firstReply = replies
    /\ lastUser = users
    /\ rewritten = FALSE

CrashWriteBegin ==
    /\ \E op \in WRITES : \E batch \in BatchesOf(op) : write_begin(op, batch)
    /\ UNCHANGED <<crawlVars, rawPage, parsed, paged>>

NextCrash ==
    \/ CrashWriteBegin
    \/ write_execute /\ UNCHANGED <<crawlVars, rawPage, parsed, paged>>
    \/ write_commit /\ UNCHANGED <<crawlVars, rawPage, parsed, paged>>
    \/ write_crash /\ UNCHANGED <<crawlVars, rawPage, parsed, paged>>
    \/ write_replay /\ UNCHANGED <<crawlVars, rawPage, parsed, paged>>
SpecCrash == InitCrash /\ [][NextCrash]_vars

\* paged queries
fetchmany_short(rows, pos, size) ==
    SubSeq(rows, pos + 1, Min(pos + size, Len(rows) - 1))

\* cursor.fetchmany(size) with pos rows of the result already fetched: the
\* next size rows, fewer at the end, none after it
fetchmany(rows, pos, size) == SubSeq(rows, pos + 1, Min(pos + size, Len(rows)))

\* get_paged_query(query, batch_size): cursor.execute(query) has the result
\* rows; the generator has fetched none yet
get_paged_query(rows, batch_size) ==
    [state |-> "running", result |-> rows, fetched |-> 0,
     batch_size |-> batch_size, pages |-> <<>>]

\* "while page := cursor.fetchmany(batch_size): yield page"
paged_yield ==
    /\ paged.state = "running"
    /\ fetchmany(paged.result, paged.fetched, paged.batch_size) # <<>>
    /\ paged' =
          [paged EXCEPT
             !.fetched = @ + Len(fetchmany(paged.result, paged.fetched,
                                           paged.batch_size)),
             !.pages = Append(@, fetchmany(paged.result, paged.fetched,
                                           paged.batch_size))]
    /\ UNCHANGED <<storeVars, histVars, crawlVars, txn, rawPage, parsed>>

\* the fetch that returns no row ends the loop and the generator
paged_exhausted ==
    /\ paged.state = "running"
    /\ fetchmany(paged.result, paged.fetched, paged.batch_size) = <<>>
    /\ paged' = [paged EXCEPT !.state = "exhausted"]
    /\ UNCHANGED <<storeVars, histVars, crawlVars, txn, rawPage, parsed>>

\* the rows a query returns: any sequence of row values
QueryResults == SeqsUpTo(1..MaxId, MaxRows)

InitPaged ==
    /\ IdleCrawl
    /\ tweets = EmptyTable
    /\ replies = EmptyTable
    /\ users = EmptyTable
    /\ ret = NoResult
    /\ firstTweet = EmptyTable
    /\ firstReply = EmptyTable
    /\ lastUser = EmptyTable
    /\ rewritten = FALSE
    /\ txn = NoTxn
    /\ rawPage = NoPage
    /\ parsed = NotParsed
    /\ \E rows \in QueryResults, size \in 1..MaxPageSize :
          paged = get_paged_query(rows, size)

NextPaged == paged_yield \/ paged_exhausted
SpecPaged == InitPaged /\ [][NextPaged]_vars

(***************************************************************************)
(* Properties of the store.                                                *)
(***************************************************************************)
IdsOf(rows) == {rows[i][1] : i \in 1..Len(rows)}

\* floor and ceiling of n * p / 100, from their defining inequalities
FloorPct(n, p) == CHOOSE k \in 0..(n * p) : 100 * k <= n * p /\ n * p < 100 * (k + 1)
CeilPct(n, p) == CHOOSE k \in 0..(n * p + 1) : 100 * (k - 1) < n * p /\ n * p <= 100 * k

NTweets == Cardinality(DOMAIN tweets)

\* C1: post writes are first-write-wins.  After any sequence of
\* insert_tweets / insert_replies every stored post row holds exactly the
\* values of the first insertion of its id into its collection, and
\* replaying any batch on top of itself leaves the collection as one
\* insertion left it.
C1_FirstWriteWins ==
    /\ tweets = firstTweet
    /\ replies = firstReply
    /\ \A b \in SeqsUpTo(TweetRows, MaxBatch) :
          executemany_tweets(executemany_tweets(tweets, b), b)
              = executemany_tweets(tweets, b)
    /\ \A b \in SeqsUpTo(ReplyRows, MaxBatch) :
          executemany_replies(executemany_replies(replies, b), b)
              = executemany_replies(replies, b)

\* a stored top-level post was presented again with other values
C1_Witness ==
    /\ rewritten
    /\ DOMAIN tweets # {}
    /\ DOMAIN replies = {}

\* C2: user writes are upserts.  After any sequence of insert_users the
\* stored row of each user id holds all fields of the most recent insertion
\* of that id.
C2_UpsertLatestWins == users = lastUser

\* a stored user was presented again with other values
C2_Witness ==
    /\ rewritten
    /\ DOMAIN users # {}

\* C3 (as stated): for every percent p in 0..100 get_top_replied(p) returns
\* exactly ceil(N * p / 100) distinct post ids.
C3_TopCountCeil ==
    /\ \A p \in 0..100 :
          Len(TOP_REPLIED_DML(tweets, p)) = CeilPct(NTweets, p)
    /\ ret.op = "top" => Len(ret.rows) = CeilPct(NTweets, ret.top_percent)

\* C3 (amended): for every percent p in 0..100 get_top_replied(p) returns
\* exactly floor(N * p / 100) distinct post ids, all of them stored.
C3_TopCountFloor ==
    /\ \A p \in 0..100 :
          LET rows == TOP_REPLIED_DML(tweets, p)
          IN  /\ Len(rows) = FloorPct(NTweets, p)
              /\ Cardinality(IdsOf(rows)) = Len(rows)
              /\ IdsOf(rows) \subseteq DOMAIN tweets
    /\ ret.op = "top" =>
          /\ Len(ret.rows) = FloorPct(NTweets, ret.top_percent)
          /\ Cardinality(IdsOf(ret.rows)) = Len(ret.rows)

\* get_top_replied(50) on three posts returned one id (1.5 truncated)
C3_Witness ==
    /\ ret.op = "top"
    /\ ret.top_percent = 50
    /\ NTweets = 3
    /\ Len(ret.rows) = 1

\* the ids returned are the top of the ranking, ties going to the smaller id
TopOfRanking(ids) ==
    \A r \in ids : \A u \in DOMAIN tweets \ ids :
        /\ Engagement(tweets[u]) <= Engagement(tweets[r])
        /\ Engagement(tweets[u]) = Engagement(tweets[r]) => r < u

ConversationRefs ==
    {replies[i].conversation_id : i \in DOMAIN replies} \ {NULL}

\* C5: get_missing_tweets returns exactly the conversation ids that occur in
\* some stored reply and are the id of no stored top-level post; it returns
\* nothing when every referenced conversation id is a stored post id.
C5_MissingExact ==
    ret.op = "missing" =>
        /\ ret.rows = ConversationRefs \ DOMAIN tweets
        /\ ConversationRefs \subseteq DOMAIN tweets => ret.rows = {}

(***************************************************************************)
(* The limiter: pyrate_limiter.Limiter over rate_limits, one bucket for    *)
(* the identity "identity".  Time is counted in ticks of SEC seconds;       *)
(* the bucket holds the ages of the acquisitions still inside the longest  *)
(* window.                                                                 *)
(***************************************************************************)
\* RequestRate(1, Duration.SECOND), RequestRate(300, Duration.HOUR / 4)
rate_limits ==
    <<[limit |-> 1, interval |-> SEC],
      [limit |-> RATE_LIMIT, interval |-> HOUR_QUARTER * SEC]>>

WindowTicks == rate_limits[Len(rate_limits)].interval

\* the ages n ticks later; what left the longest window is dropped
Advance(ages, n) ==
    LET moved == [i \in 1..Len(ages) |-> ages[i] + n]
    IN  SelectSeq(moved, LAMBDA a : a < WindowTicks)

\* the items of the bucket younger than the interval
InInterval(ages, interval) == {i \in 1..Len(ages) : ages[i] < interval}

\* try_acquire: the first rate whose window already holds limit items, 0 if none
ViolatedRate(ages) ==
    IF \E r \in 1..Len(rate_limits) :
          Cardinality(InInterval(ages, rate_limits[r].interval)) >= rate_limits[r].limit
    THEN CHOOSE r \in 1..Len(rate_limits) :
          /\ Cardinality(InInterval(ages, rate_limits[r].interval)) >= rate_limits[r].limit
          /\ \A q \in 1..(r - 1) :
                Cardinality(InInterval(ages, rate_limits[q].interval)) < rate_limits[q].limit
    ELSE 0

\* BucketFullException.meta_info["remaining_time"]: until the oldest item of
\* the violated window leaves it
RemainingTime(ages, r) ==
    LET inside == InInterval(ages, rate_limits[r].interval)
        oldest == CHOOSE i \in inside : \A j \in inside : ages[j] <= ages[i]
    IN  rate_limits[r].interval - ages[oldest]

make_api_call_unlimited(ages) == FALSE

\* @limiter.ratelimit("identity"): the call raises BucketFullException, and
\* sends nothing, when try_acquire finds a rate violated
make_api_call_ratelimit(ages) == ViolatedRate(ages) # 0

\* _make_api_call against a remote answering o after d ticks: what the caller
\* sees, whether a request went out, and the seconds to sleep on a rejection
\* (the 429 branch raises with remaining_time = Duration.HOUR / 4)
make_api_call(o, d) ==
    IF make_api_call_ratelimit(bucket)
    THEN [kind |-> "full", sent |-> FALSE, took |-> 0,
          remaining |-> RemainingTime(bucket, ViolatedRate(bucket))]
    ELSE [kind |-> o, sent |-> TRUE, took |-> d,
          remaining |-> IF o = "429" THEN HOUR_QUARTER * SEC ELSE 0]

\* sleep(e.meta_info["remaining_time"] + 1), in ticks
SleepAfter(call) == call.remaining + SEC

\* n ticks pass; a request sent at their start is entered in the bucket
TimePass(sent, n, resetT) ==
    /\ bucket' = Advance(IF sent THEN <<0>> \o bucket ELSE bucket, n)
    /\ reqLog' = Advance(IF sent THEN <<0>> \o reqLog ELSE reqLog, n)
    /\ sinceT' = Min(SEC, (IF resetT THEN 0 ELSE sinceT) + n)

(***************************************************************************)
(* TwitterApiV2.search, a generator.  The remote serves the query as a     *)
(* chain of pages 1..Len(remote); page k carries next_token k + 1 unless   *)
(* it is the last.  It may answer any request 429 (at most MaxRejects      *)
(* times per cursor) or with another error.                                *)
(***************************************************************************)
Outcomes == {"ok", "error"} \cup (IF rejects < MaxRejects THEN {"429"} ELSE {})

NextToken(page) == IF page < Len(remote) THEN page + 1 ELSE NULL

\* the page the remote returns for a next_token
PageFor(token) == IF token = NULL THEN 1 ELSE token

Sent(call, token) ==
    IF call.sent
    THEN Append(issued, [token |-> token, count |-> tweet_count])
    ELSE issued

\* lines 130-131: the first request succeeds; line 146 yields its page
search_first_ok ==
    /\ spc = "start"
    /\ \E o \in Outcomes, d \in 0..MaxDelay :
          LET call == make_api_call(o, d)
          IN  /\ call.kind = "ok"
              /\ TimePass(TRUE, call.took, FALSE)
              /\ issued' = Sent(call, payload)
    /\ results' = PageFor(payload)
    /\ tweet_count' = remote[PageFor(payload)]
    /\ yielded' = Append(yielded, PageFor(payload))
    /\ spc' = "yield_first"
    /\ UNCHANGED <<limit, payload, remote, rejects, raisedBy>>

\* lines 132-134: the first request is rejected; sleep, then line 135
search_first_rejected ==
    /\ spc = "start"
    /\ \E o \in Outcomes, d \in 0..MaxDelay :
          LET call == make_api_call(o, d)
          IN  /\ call.kind \in {"full", "429"}
              /\ TimePass(call.sent, call.took + SleepAfter(call), FALSE)
              /\ issued' = Sent(call, payload)
              /\ rejects' = IF call.kind = "429" THEN rejects + 1 ELSE rejects
    /\ spc' = "retry"
    /\ UNCHANGED <<limit, payload, results, tweet_count, remote, yielded,
                   raisedBy>>

\* line 99: any other status raises Exception out of search()
search_first_error ==
    /\ spc \in {"start", "retry"}
    /\ \E o \in Outcomes, d \in 0..MaxDelay :
          LET call == make_api_call(o, d)
          IN  /\ call.kind = "error"
              /\ TimePass(TRUE, call.took, FALSE)
              /\ issued' = Sent(call, payload)
    /\ spc' = "raised"
    /\ raisedBy' = "failure"
    /\ UNCHANGED <<limit, payload, results, tweet_count, remote, rejects,
                   yielded>>

\* line 135: the one retry of the first request succeeds
search_retry_ok ==
    /\ spc = "retry"
    /\ \E o \in Outcomes, d \in 0..MaxDelay :
          LET call == make_api_call(o, d)
          IN  /\ call.kind = "ok"
              /\ TimePass(TRUE, call.took, FALSE)
              /\ issued' = Sent(call, payload)
    /\ results' = PageFor(payload)
    /\ tweet_count' = remote[PageFor(payload)]
    /\ yielded' = Append(yielded, PageFor(payload))
    /\ spc' = "yield_first"
    /\ UNCHANGED <<limit, payload, remote, rejects, raisedBy>>

\* line 135 stands outside the try: a second rejection leaves search()
search_retry_rejected ==
    /\ spc = "retry"
    /\ \E o \in Outcomes, d \in 0..MaxDelay :
          LET call == make_api_call(o, d)
          IN  /\ call.kind \in {"full", "429"}
              /\ TimePass(call.sent, call.took, FALSE)
              /\ issued' = Sent(call, payload)
              /\ rejects' = IF call.kind = "429" THEN rejects + 1 ELSE rejects
    /\ spc' = "raised"
    /\ raisedBy' = "ratelimit"
    /\ UNCHANGED <<limit, payload, results, tweet_count, remote, yielded>>

\* the consumer takes c ticks over the first page and asks for the next
search_resume_first ==
    /\ spc = "yield_first"
    /\ \E c \in 0..MaxDelay : TimePass(FALSE, c, FALSE)
    /\ spc' = "loop"
    /\ UNCHANGED <<limit, payload, results, tweet_count, remote, rejects,
                   yielded, issued, raisedBy>>

\* the consumer takes c ticks over a later page and asks for the next;
\* lines 169-170 then wait out the rest of the second since t
search_resume_loop ==
    /\ spc = "yield_loop"
    /\ \E c \in 0..MaxDelay :
          LET since == Min(SEC, sinceT + c)
          IN  TimePass(FALSE, c + (SEC - since), FALSE)
    /\ spc' = "loop"
    /\ UNCHANGED <<limit, payload, results, tweet_count, remote, rejects,
                   yielded, issued, raisedBy>>

HasNextToken_always(page) == TRUE

\* line 148: while results["meta"].get("next_token", False)
HasNextToken(page) == NextToken(page) # NULL

\* line 149: "if limit and limit < tweet_count"
LimitReached(lim, count) == lim # NULL /\ lim < count

\* lines 148-150: no next_token, or the limit is passed: the generator ends
search_loop_exit ==
    /\ spc = "loop"
    /\ \/ ~HasNextToken(results)
       \/ LimitReached(limit, tweet_count)
    /\ spc' = "done"
    /\ UNCHANGED <<limiterVars, limit, payload, results, tweet_count, remote,
                   rejects, yielded, issued, raisedBy>>

\* lines 152-155, 160-167: the continuation request succeeds, its page is
\* counted and yielded
search_loop_ok ==
    /\ spc = "loop"
    /\ HasNextToken(results)
    /\ ~LimitReached(limit, tweet_count)
    /\ payload' = NextToken(results)
    /\ \E o \in Outcomes, d \in 0..MaxDelay :
          LET call == make_api_call(o, d)
          IN  /\ call.kind = "ok"
              /\ TimePass(TRUE, call.took, TRUE)
              /\ issued' = Sent(call, payload')
    /\ results' = PageFor(payload')
    /\ tweet_count' = tweet_count + remote[PageFor(payload')]
    /\ yielded' = Append(yielded, PageFor(payload'))
    /\ spc' = "yield_loop"
    /\ UNCHANGED <<limit, remote, rejects, raisedBy>>

\* lines 156-167: the continuation request is rejected; after the sleep the
\* code goes on to lines 160-167 with the results it already had
search_loop_rejected ==
    /\ spc = "loop"
    /\ HasNextToken(results)
    /\ ~LimitReached(limit, tweet_count)
    /\ payload' = NextToken(results)
    /\ \E o \in Outcomes, d \in 0..MaxDelay :
          LET call == make_api_call(o, d)
          IN  /\ call.kind \in {"full", "429"}
              /\ TimePass(call.sent, call.took + SleepAfter(call), TRUE)
              /\ issued' = Sent(call, payload')
              /\ rejects' = IF call.kind = "429" THEN rejects + 1 ELSE rejects
    /\ tweet_count' = tweet_count + remote[results]
    /\ yielded' = Append(yielded, results)
    /\ spc' = "yield_loop"
    /\ UNCHANGED <<limit, results, remote, raisedBy>>

\* line 99 inside the loop
search_loop_error ==
    /\ spc = "loop"
    /\ HasNextToken(results)
    /\ ~LimitReached(limit, tweet_count)
    /\ payload' = NextToken(results)
    /\ \E o \in Outcomes, d \in 0..MaxDelay :
          LET call == make_api_call(o, d)
          IN  /\ call.kind = "error"
              /\ TimePass(TRUE, call.took, TRUE)
              /\ issued' = Sent(call, payload')
    /\ spc' = "raised"
    /\ raisedBy' = "failure"
    /\ UNCHANGED <<limit, results, tweet_count, remote, rejects, yielded>>

\* twitter.search(query, limit=lim) against a remote serving pages: the
\* generator object is created, nothing runs yet
search(lim, pages) ==
    /\ limit' = lim
    /\ remote' = pages
    /\ payload' = NULL
    /\ results' = 0
    /\ tweet_count' = 0
    /\ rejects' = 0
    /\ yielded' = <<>>
    /\ issued' = <<>>
    /\ raisedBy' = "none"
    /\ spc' = "start"

(***************************************************************************)
(* Specification of the cursor: a caller that runs one search() after      *)
(* another through the shared limiter and takes every page.                *)
(***************************************************************************)
Limits == {NULL} \cup 1..MaxLimit
\* every page of a chain is empty or carries one item
Remotes == UNION {[1..k -> {0, 1}] : k \in 1..MaxPages}

InitCursor ==
    /\ tweets = EmptyTable
    /\ replies = EmptyTable
    /\ users = EmptyTable
    /\ ret = NoResult
    /\ firstTweet = EmptyTable
    /\ firstReply = EmptyTable
    /\ lastUser = EmptyTable
    /\ rewritten = FALSE
    /\ bucket = <<>>
    /\ reqLog = <<>>
    /\ sinceT = 0
    /\ limit \in Limits
    /\ remote \in Remotes
    /\ payload = NULL
    /\ results = 0
    /\ tweet_count = 0
    /\ rejects = 0
    /\ yielded = <<>>
    /\ issued = <<>>
    /\ raisedBy = "none"
    /\ spc = "start"
    /\ mpc = "none"
    /\ stage = "pull"
    /\ top = <<>>
    /\ query = NULL
    /\ exit = "running"
    /\ pastEmpty = FALSE
    /\ txn = NoTxn
    /\ rawPage = NoPage
    /\ parsed = NotParsed
    /\ paged = NoPager

\* the caller starts the next search once the last one is exhausted
CursorNewSearch ==
    /\ spc = "done"
    /\ \E lim \in Limits, pages \in Remotes : search(lim, pages)
    /\ \E c \in 0..MaxDelay : TimePass(FALSE, c, FALSE)
    /\ UNCHANGED <<storeVars, histVars, mainVars, otherVars>>

NextCursor ==
    \/ search_first_ok /\ UNCHANGED <<storeVars, histVars, mainVars, otherVars>>
    \/ search_first_rejected /\ UNCHANGED <<storeVars, histVars, mainVars, otherVars>>
    \/ search_first_error /\ UNCHANGED <<storeVars, histVars, mainVars, otherVars>>
    \/ search_retry_ok /\ UNCHANGED <<storeVars, histVars, mainVars, otherVars>>
    \/ search_retry_rejected /\ UNCHANGED <<storeVars, histVars, mainVars, otherVars>>
    \/ search_resume_first /\ UNCHANGED <<storeVars, histVars, mainVars, otherVars>>
    \/ search_resume_loop /\ UNCHANGED <<storeVars, histVars, mainVars, otherVars>>
    \/ search_loop_exit /\ UNCHANGED <<storeVars, histVars, mainVars, otherVars>>
    \/ search_loop_ok /\ UNCHANGED <<storeVars, histVars, mainVars, otherVars>>
    \/ search_loop_rejected /\ UNCHANGED <<storeVars, histVars, mainVars, otherVars>>
    \/ search_loop_error /\ UNCHANGED <<storeVars, histVars, mainVars, otherVars>>
    \/ CursorNewSearch
SpecCursor == InitCursor /\ [][NextCursor]_vars

\* what the limiter may hold of earlier searches when a search is called:
\* acquisitions inside the long window, a second or more apart, newest first
BucketsAtCall ==
    {b \in SeqsUpTo(0..(WindowTicks - 1), RATE_LIMIT) :
        \A i \in 1..(Len(b) - 1) : b[i + 1] - b[i] >= SEC}

\* one search() run to its end, called at any state of the limiter
InitCursorOnce ==
    /\ tweets = EmptyTable
    /\ replies = EmptyTable
    /\ users = EmptyTable
    /\ ret = NoResult
    /\ firstTweet = EmptyTable
    /\ firstReply = EmptyTable
    /\ lastUser = EmptyTable
    /\ rewritten = FALSE
    /\ bucket \in BucketsAtCall
    /\ reqLog = bucket
    /\ sinceT = 0
    /\ limit \in Limits
    /\ remote \in Remotes
    /\ payload = NULL
    /\ results = 0
    /\ tweet_count = 0
    /\ rejects = 0
    /\ yielded = <<>>
    /\ issued = <<>>
    /\ raisedBy = "none"
    /\ spc = "start"
    /\ mpc = "none"
    /\ stage = "pull"
    /\ top = <<>>
    /\ query = NULL
    /\ exit = "running"
    /\ pastEmpty = FALSE
    /\ txn = NoTxn
    /\ rawPage = NoPage
    /\ parsed = NotParsed
    /\ paged = NoPager

NextCursorOnce ==
    \/ search_first_ok /\ UNCHANGED <<storeVars, histVars, mainVars, otherVars>>
    \/ search_first_rejected /\ UNCHANGED <<storeVars, histVars, mainVars, otherVars>>
    \/ search_first_error /\ UNCHANGED <<storeVars, histVars, mainVars, otherVars>>
    \/ search_retry_ok /\ UNCHANGED <<storeVars, histVars, mainVars, otherVars>>
    \/ search_retry_rejected /\ UNCHANGED <<storeVars, histVars, mainVars, otherVars>>
    \/ search_resume_first /\ UNCHANGED <<storeVars, histVars, mainVars, otherVars>>
    \/ search_resume_loop /\ UNCHANGED <<storeVars, histVars, mainVars, otherVars>>
    \/ search_loop_exit /\ UNCHANGED <<storeVars, histVars, mainVars, otherVars>>
    \/ search_loop_ok /\ UNCHANGED <<storeVars, histVars, mainVars, otherVars>>
    \/ search_loop_rejected /\ UNCHANGED <<storeVars, histVars, mainVars, otherVars>>
    \/ search_loop_error /\ UNCHANGED <<storeVars, histVars, mainVars, otherVars>>

\* the consumer keeps iterating and every sleep ends: the program takes its
\* next step as long as it has one
SpecCursorFair ==
    /\ InitCursorOnce
    /\ [][NextCursorOnce]_vars
    /\ WF_vars(NextCursorOnce)

(***************************************************************************)
(* Properties of the limiter and the cursor.                               *)
(***************************************************************************)
\* C7: all rate windows hold at once over every request sent, whichever
\* search issued it: no two requests are less than one second apart and no
\* long window holds more than RATE_LIMIT requests.
C7_RateWindowsHold ==
    /\ \A i, j \in 1..Len(reqLog) :
          i < j => reqLog[j] - reqLog[i] >= SEC
    /\ Cardinality(InInterval(reqLog, HOUR_QUARTER * SEC)) <= RATE_LIMIT

\* the long window is full of requests and is the rate that blocks the next
C7_Witness ==
    /\ Len(reqLog) = RATE_LIMIT
    /\ ViolatedRate(bucket) = Len(rate_limits)
    /\ spc = "loop"

\* C8: whatever rejections occur, the pages search() yields are the
\* remote's pages in order, none yielded twice and none skipped.
C8_PagesInOrderOnce ==
    \A i \in 1..Len(yielded) : yielded[i] = i

\* C9: a rate-limit rejection never makes search() raise; only another
\* failure of the transport does.
C9_RateLimitNeverRaises ==
    spc = "raised" => raisedBy = "failure"

\* C10: with a limit L no request is sent once tweet_count >= L; on a
\* three-page remote of one item a page and L = 1 exactly one page is
\* yielded.
C10_NoRequestAtLimit ==
    /\ limit # NULL =>
          \A i \in 1..Len(issued) : issued[i].count < limit
    /\ (limit = 1 /\ remote = <<1, 1, 1>> /\ spc = "done") => yielded = <<1>>

(***************************************************************************)
(* parse_tweet, parse_user and process_batch_tweets: the records main      *)
(* hands to the store.  A raw record is the API's JSON object.             *)
(***************************************************************************)
RawTweet(id, conv) ==
    [id |-> id, conversation_id |-> conv, author_id |-> 1, text |-> id,
     created_at |-> 1,
     public_metrics |-> [like_count |-> 0, reply_count |-> 0,
                         retweet_count |-> 0, quote_count |-> 0]]

RawUser(id) ==
    [id |-> id, username |-> 1, name |-> 1, verified |-> 1, created_at |-> 1,
     description |-> 1,
     public_metrics |-> [following_count |-> 0, followers_count |-> 0]]

\* d.get(key, default)
Get(d, key, default) == IF key \in DOMAIN d THEN d[key] ELSE default

\* A str-or-None value of Python: None, or the text s
NoneValue == [none |-> TRUE, text |-> ""]
Str(s) == [none |-> FALSE, text |-> s]

\* ",".join(list)
RECURSIVE Join(_)
Join(list) ==
    IF list = <<>> THEN ""
    ELSE IF Len(list) = 1 THEN list[1]
    ELSE list[1] \o "," \o Join(Tail(list))

\* "s or None": the empty string is falsy
OrNone(s) == IF s = "" THEN NoneValue ELSE Str(s)

\* [item[field] for item in tweet["entities"].get(kind, [])], [] without entities
EntityList(tweet, kind, field) ==
    IF "entities" \in DOMAIN tweet
    THEN LET items == Get(tweet.entities, kind, <<>>)
         IN  [i \in 1..Len(items) |-> items[i][field]]
    ELSE <<>>

\* lines 198-201: url, else preview_image_url, of each item of tweet["media"]
MediaLinks(tweet) ==
    LET items == Get(tweet, "media", <<>>)
    IN  [i \in 1..Len(items) |->
            IF "url" \in DOMAIN items[i] THEN items[i].url
            ELSE items[i].preview_image_url]

\* lines 203-210: the id of the first referenced tweet of type replied_to
ReferencedTweet(tweet) ==
    LET refs == Get(tweet, "referenced_tweets", <<>>)
        repliedTo == SelectSeq(refs, LAMBDA r : r.type = "replied_to")
    IN  IF repliedTo = <<>> THEN NULL ELSE repliedTo[1].id

\* the subscripts tweet[..] / user[..] that raise KeyError on a missing key
TWEET_REQUIRED == {"public_metrics", "id", "author_id", "text", "created_at"}
USER_REQUIRED ==
    {"public_metrics", "id", "username", "verified", "created_at", "description"}

parse_tweet(tweet, places) ==
    [id |-> tweet.id,
     parent_id |-> ReferencedTweet(tweet),
     conversation_id |-> Get(tweet, "conversation_id", NULL),
     author |-> tweet.author_id,
     url |-> tweet.id,
     tweet_text |-> tweet.text,
     timestamp |-> tweet.created_at,
     hashtags |-> OrNone(Join(EntityList(tweet, "hashtags", "tag"))),
     mentions |-> OrNone(Join(EntityList(tweet, "mentions", "username"))),
     media |-> OrNone(Join(MediaLinks(tweet))),
     urls |-> Str(Join(EntityList(tweet, "urls", "expanded_url"))),
     location |-> IF "geo" \in DOMAIN tweet
                  THEN Get(places, tweet.geo.place_id, NULL)
                  ELSE NULL,
     likes |-> Get(tweet.public_metrics, "like_count", 0),
     replies |-> Get(tweet.public_metrics, "reply_count", 0),
     retweets |-> Get(tweet.public_metrics, "retweet_count", 0),
     quotes |-> Get(tweet.public_metrics, "quote_count", 0)]

parse_user(user) ==
    [id |-> user.id,
     username |-> user.username,
     verified |-> user.verified,
     location |-> Get(user, "location", NULL),
     following |-> user.public_metrics.following_count,
     followers |-> user.public_metrics.followers_count,
     date_joined |-> user.created_at,
     bio |-> user.description]

\* {**tweet, "sentiment": .., "sentiment_score": ..}
WithSentiment(rec) ==
    [k \in DOMAIN rec \cup {"sentiment", "sentiment_score"} |->
        IF k \in {"sentiment", "sentiment_score"} THEN 1 ELSE rec[k]]

\* process_batch_tweets: <<enriched posts, parsed users>>
process_batch_tweets(rawTweets, rawUsers, places) ==
    <<[i \in 1..Len(rawTweets) |-> WithSentiment(parse_tweet(rawTweets[i], places))],
      [i \in 1..Len(rawUsers) |-> parse_user(rawUsers[i])]>>

\* batch_processor(tweets, users, places) as main sees it: the KeyError of
\* the first subscript that fails leaves process_batch_tweets, else its tuple
batch_processor(rawTweets, rawUsers, places) ==
    IF \/ \E i \in 1..Len(rawTweets) : ~(TWEET_REQUIRED \subseteq DOMAIN rawTweets[i])
       \/ \E i \in 1..Len(rawUsers) : ~(USER_REQUIRED \subseteq DOMAIN rawUsers[i])
    THEN [exc |-> "KeyError", tweets |-> <<>>, users |-> <<>>]
    ELSE [exc |-> "none",
          tweets |-> process_batch_tweets(rawTweets, rawUsers, places)[1],
          users |-> process_batch_tweets(rawTweets, rawUsers, places)[2]]

(***************************************************************************)
(* Specification of the parsers: one page of raw records is handed to      *)
(* process_batch_tweets.                                                   *)
(***************************************************************************)
PHOTO_URL == "https://twitter.com/u/status/1/photo/1"
VIDEO_URL == "https://twitter.com/u/status/1/video/1"
OTHER_URL == "https://example.org/a"

\* rec without key k
Without(rec, k) == [f \in DOMAIN rec \ {k} |-> rec[f]]

\* rec with key k set to v
With(rec, k, v) == [f \in DOMAIN rec \cup {k} |-> IF f = k THEN v ELSE rec[f]]

Entities(tags, names, links) ==
    [hashtags |-> [i \in 1..Len(tags) |-> [tag |-> tags[i]]],
     mentions |-> [i \in 1..Len(names) |-> [username |-> names[i]]],
     urls |-> [i \in 1..Len(links) |-> [expanded_url |-> links[i]]]]

\* a well-formed post without entities, or with an entities block
EntityTweets ==
    {RawTweet(1, 1)} \cup
    {With(RawTweet(1, 1), "entities", Entities(tags, names, links)) :
        tags \in SeqsUpTo({"a", "b"}, MaxTags),
        names \in {<<>>, <<"m">>},
        links \in SeqsUpTo({PHOTO_URL, VIDEO_URL, OTHER_URL}, MaxUrls)}

\* a post without entities, well-formed or lacking one required field
PlainTweets ==
    {RawTweet(id, id) : id \in 1..MaxId} \cup
    {Without(RawTweet(id, id), k) :
        id \in 1..MaxId, k \in {"id", "author_id", "text"}}

RawUsers == {<<RawUser(1)>>, <<Without(RawUser(1), "username")>>}

RawPages ==
    {[tweets |-> <<t>>, users |-> <<RawUser(1)>>] : t \in EntityTweets} \cup
    {[tweets |-> ts, users |-> us] :
        ts \in SeqsUpTo(PlainTweets, MaxBatch), us \in RawUsers}

InitParse ==
    /\ IdleCrawl
    /\ tweets = EmptyTable
    /\ replies = EmptyTable
    /\ users = EmptyTable
    /\ ret = NoResult
    /\ firstTweet = EmptyTable
    /\ firstReply = EmptyTable
    /\ lastUser = EmptyTable
    /\ rewritten = FALSE
    /\ txn = NoTxn
    /\ rawPage \in RawPages
    /\ parsed = NotParsed
    /\ paged = NoPager

\* main.py:136-138 / 159-161: the page goes through batch_processor
ParseBatch ==
    /\ parsed.exc = "pending"
    /\ parsed' = batch_processor(rawPage.tweets, rawPage.users, <<>>)
    /\ UNCHANGED <<storeVars, histVars, crawlVars, txn, rawPage, paged>>

NextParse == ParseBatch
SpecParse == InitParse /\ [][NextParse]_vars

(***************************************************************************)
(* main: primary search, reply crawl of the top posts, backfill of the     *)
(* missing conversation roots.                                             *)
(***************************************************************************)
\* db.get_top_replied(top_percent=5)
TOP_PERCENT == 5

\* the id of the item on page k of the running query
ItemId(k) == SeedTweets + k

\* the page search() last yielded: raw posts, their authors, places
PageTweets ==
    IF remote[yielded[Len(yielded)]] = 0 THEN <<>>
    ELSE <<RawTweet(ItemId(yielded[Len(yielded)]),
                    IF query = NULL THEN ItemId(yielded[Len(yielded)]) ELSE query)>>

PageUsers == IF PageTweets = <<>> THEN <<>> ELSE <<RawUser(1)>>

Processed == process_batch_tweets(PageTweets, PageUsers, <<>>)

Yields == {"yield_first", "yield_loop"}

ExceptionOf(by) == IF by = "ratelimit" THEN "BucketFullException" ELSE "Exception"

BreakOnEmpty_never(phase, tweetsOfPage) == FALSE

\* lines 155-156: "if not tweets: break", in the reply loop alone
BreakOnEmpty(phase, tweetsOfPage) == phase = "replies" /\ tweetsOfPage = <<>>

\* main iterates the generator: one of its request steps runs
MainCall(step) ==
    /\ exit = "running"
    /\ mpc \in {"search", "replies"}
    /\ stage = "pull"
    /\ step
    /\ stage' = IF spc' \in Yields THEN "tweets" ELSE "pull"
    /\ exit' = IF spc' = "raised" THEN ExceptionOf(raisedBy') ELSE exit
    /\ pastEmpty' = (pastEmpty \/ (/\ mpc = "search"
                                   /\ issued' # issued
                                   /\ results # 0
                                   /\ remote[results] = 0))
    /\ UNCHANGED <<storeVars, histVars, mpc, top, query>>
    /\ UNCHANGED otherVars

\* main has stored the page and asks the generator for the next
MainResume(step) ==
    /\ exit = "running"
    /\ mpc \in {"search", "replies"}
    /\ stage = "next"
    /\ step
    /\ stage' = "pull"
    /\ UNCHANGED <<storeVars, histVars, mpc, top, query, exit>>
    /\ UNCHANGED <<otherVars, pastEmpty>>

\* lines 136-139: db.insert_tweets(processed_tweets)
main_insert_tweets ==
    /\ exit = "running"
    /\ mpc = "search"
    /\ stage = "tweets"
    /\ IF BindingError(POST_KEYS, Processed[1])
       THEN /\ exit' = "ProgrammingError"
            /\ UNCHANGED <<storeVars, histVars, stage>>
       ELSE /\ insert_tweets(Processed[1])
            /\ stage' = "users"
            /\ exit' = exit
    /\ UNCHANGED <<limiterVars, cursorVars, mpc, top, query>>
    /\ UNCHANGED <<otherVars, pastEmpty>>

\* lines 154-162: an empty page ends the conversation, else
\* db.insert_replies(processed_replies)
main_insert_replies ==
    /\ exit = "running"
    /\ mpc = "replies"
    /\ stage = "tweets"
    /\ ~BreakOnEmpty(mpc, PageTweets)
    /\ IF BindingError(POST_KEYS, Processed[1])
       THEN /\ exit' = "ProgrammingError"
            /\ UNCHANGED <<storeVars, histVars, stage>>
       ELSE /\ insert_replies(Processed[1])
            /\ stage' = "users"
            /\ exit' = exit
    /\ UNCHANGED <<limiterVars, cursorVars, mpc, top, query>>
    /\ UNCHANGED <<otherVars, pastEmpty>>

\* lines 155-156: "if not tweets: break"
main_replies_break ==
    /\ exit = "running"
    /\ mpc = "replies"
    /\ stage = "tweets"
    /\ BreakOnEmpty(mpc, PageTweets)
    /\ mpc' = "top"
    /\ stage' = "pull"
    /\ UNCHANGED <<storeVars, histVars, limiterVars, cursorVars, top, query,
                   exit>>
    /\ UNCHANGED <<otherVars, pastEmpty>>

\* lines 140, 163: db.insert_users(processed_users)
main_insert_users ==
    /\ exit = "running"
    /\ mpc \in {"search", "replies"}
    /\ stage = "users"
    /\ IF BindingError(USER_KEYS, Processed[2])
       THEN /\ exit' = "ProgrammingError"
            /\ UNCHANGED <<storeVars, histVars, stage>>
       ELSE /\ insert_users(Processed[2])
            /\ stage' = "next"
            /\ exit' = exit
    /\ UNCHANGED <<limiterVars, cursorVars, mpc, top, query>>
    /\ UNCHANGED <<otherVars, pastEmpty>>

\* lines 134, 154: the generator is exhausted and the for loop ends; after
\* the primary search comes db.get_top_replied(top_percent=5) (line 146),
\* after a reply search the next row of it
main_results_exhausted ==
    /\ exit = "running"
    /\ mpc \in {"search", "replies"}
    /\ stage = "pull"
    /\ spc = "done"
    /\ top' = IF mpc = "search" THEN TOP_REPLIED_DML(tweets, TOP_PERCENT) ELSE top
    /\ mpc' = "top"
    /\ UNCHANGED <<storeVars, histVars, limiterVars, cursorVars, stage, query,
                   exit>>
    /\ UNCHANGED <<otherVars, pastEmpty>>

\* lines 146-152: the next row; twitter.search_replies(conversation_id),
\* which passes no limit
main_search_replies ==
    /\ exit = "running"
    /\ mpc = "top"
    /\ top # <<>>
    /\ query' = Head(top)[2]
    /\ top' = Tail(top)
    /\ \E pages \in Remotes : search(NULL, pages)
    /\ \E c \in 0..MaxDelay : TimePass(FALSE, c, FALSE)
    /\ mpc' = "replies"
    /\ stage' = "pull"
    /\ UNCHANGED <<storeVars, histVars, exit>>
    /\ UNCHANGED <<otherVars, pastEmpty>>

\* line 167: every row crawled; db.get_missing_tweets(batch_size=100)
main_get_missing_tweets ==
    /\ exit = "running"
    /\ mpc = "top"
    /\ top = <<>>
    /\ mpc' = "missing"
    /\ UNCHANGED <<storeVars, histVars, limiterVars, cursorVars, stage, top,
                   query, exit>>
    /\ UNCHANGED <<otherVars, pastEmpty>>

\* line 167: the query yields no page; main returns
main_backfill_nothing ==
    /\ exit = "running"
    /\ mpc = "missing"
    /\ MISSING_CONVERSATION_TWEETS_DML(tweets, replies) = {}
    /\ exit' = "0"
    /\ UNCHANGED <<storeVars, histVars, limiterVars, cursorVars, mpc, stage,
                   top, query>>
    /\ UNCHANGED <<otherVars, pastEmpty>>

\* line 168: twitter.tweet_lookup(..); TwitterApiV2 defines no tweet_lookup
main_backfill_lookup ==
    /\ exit = "running"
    /\ mpc = "missing"
    /\ MISSING_CONVERSATION_TWEETS_DML(tweets, replies) # {}
    /\ exit' = "AttributeError"
    /\ UNCHANGED <<storeVars, histVars, limiterVars, cursorVars, mpc, stage,
                   top, query>>
    /\ UNCHANGED <<otherVars, pastEmpty>>

(***************************************************************************)
(* Specification of main.  The database file data_<lang>.db outlives a     *)
(* run: main starts on an empty file or on what earlier sessions stored.   *)
(***************************************************************************)
\* SeedTweets posts, each its own conversation; post 1 is the most liked
SeedStore == [id \in 1..SeedTweets |-> PostRow(id, id, IF id = 1 THEN 1 ELSE 0, 0, 0)]

\* one reply whose conversation root is not among the posts
SeedReply ==
    (ItemId(MaxPages + 2) :> PostRow(ItemId(MaxPages + 2), ItemId(MaxPages + 1), 0, 0, 0))

InitMain ==
    /\ tweets \in {EmptyTable, SeedStore}
    /\ replies \in {EmptyTable, SeedReply}
    /\ users = EmptyTable
    /\ ret = NoResult
    /\ firstTweet = tweets
    /\ firstReply = replies
    /\ lastUser = EmptyTable
    /\ rewritten = FALSE
    /\ bucket = <<>>
    /\ reqLog = <<>>
    /\ sinceT = 0
    /\ limit \in Limits
    /\ remote \in Remotes
    /\ payload = NULL
    /\ results = 0
    /\ tweet_count = 0
    /\ rejects = 0
    /\ yielded = <<>>
    /\ issued = <<>>
    /\ raisedBy = "none"
    /\ spc = "start"
    /\ mpc = "search"
    /\ stage = "pull"
    /\ top = <<>>
    /\ query = NULL
    /\ exit = "running"
    /\ pastEmpty = FALSE
    /\ txn = NoTxn
    /\ rawPage = NoPage
    /\ parsed = NotParsed
    /\ paged = NoPager

NextMain ==
    \/ MainCall(search_first_ok)
    \/ MainCall(search_first_rejected)
    \/ MainCall(search_first_error)
    \/ MainCall(search_retry_ok)
    \/ MainCall(search_retry_rejected)
    \/ MainResume(search_resume_first)
    \/ MainResume(search_resume_loop)
    \/ MainCall(search_loop_exit)
    \/ MainCall(search_loop_ok)
    \/ MainCall(search_loop_rejected)
    \/ MainCall(search_loop_error)
    \/ main_insert_tweets
    \/ main_insert_replies
    \/ main_replies_break
    \/ main_insert_users
    \/ main_results_exhausted
    \/ main_search_replies
    \/ main_get_missing_tweets
    \/ main_backfill_nothing
    \/ main_backfill_lookup
SpecMain == InitMain /\ [][NextMain]_vars

\* C6: a run of main that reaches the backfill and ends there leaves no
\* missing conversation root: every conversation_id of a stored reply is
\* the id of a stored top-level post.
C6_BackfillLeavesNoMissingRoot ==
    (mpc = "missing" /\ exit # "running") =>
        ConversationRefs \subseteq DOMAIN tweets

\* the page the running cursor yielded last carries no post
LastPageEmpty == yielded # <<>> /\ remote[yielded[Len(yielded)]] = 0

\* C11: a reply search is left at its first empty page: the generator stays
\* suspended at that yield, so no request follows and nothing is stored
\* for the conversation; the primary search ends only when the remote gave
\* no continuation marker or the limit is passed, never at an empty page.
C11_EmptyPageAsymmetry ==
    /\ [](query # NULL =>
            \A i \in 1..Len(yielded) :
                remote[yielded[i]] = 0 => (i = Len(yielded) /\ spc \in Yields))
    /\ [][(query # NULL /\ LastPageEmpty) =>
             \/ issued' = issued /\ replies' = replies /\ users' = users
             \/ yielded' = <<>>]_vars
    /\ [][(mpc = "search" /\ mpc' # "search") =>
             /\ spc = "done"
             /\ \/ NextToken(results) = NULL
                \/ LimitReached(limit, tweet_count)]_vars

\* the primary search went on past an empty page, and a reply search was
\* left at an empty page that carried a continuation marker
C11_Witness ==
    /\ pastEmpty
    /\ query # NULL
    /\ mpc = "top"
    /\ LastPageEmpty
    /\ NextToken(results) # NULL

\* the ids of the posts on the page main holds
PagePostIds == {PageTweets[i].id : i \in 1..Len(PageTweets)}

\* main holds a page with posts and is about to store them
HoldsPosts(phase) ==
    /\ exit = "running"
    /\ mpc = phase
    /\ stage = "tweets"
    /\ PageTweets # <<>>

\* C12: collections are written by role.  The step that stores a page of
\* the reply crawl puts its posts into replies and leaves tweets alone; the
\* step that stores a page of the primary search, and the backfill of the
\* missing roots, put their posts into tweets and leave replies alone.
C12_WrittenByRole ==
    [][/\ HoldsPosts("replies") =>
            (PagePostIds \subseteq DOMAIN replies' /\ tweets' = tweets)
       /\ HoldsPosts("search") =>
            (PagePostIds \subseteq DOMAIN tweets' /\ replies' = replies)
       /\ (exit = "running" /\ mpc = "missing") =>
            /\ MISSING_CONVERSATION_TWEETS_DML(tweets, replies) \ {NULL}
                   \subseteq DOMAIN tweets'
            /\ replies' = replies]_vars

\* tbl2 is tbl after the updates of batch: same ids; each row as it was but
\* for sentiment and sentiment_score, which are those of the latest update
\* of its id, if the batch has one
OnlySentimentOf(tbl, tbl2, batch) ==
    /\ DOMAIN tbl2 = DOMAIN tbl
    /\ \A id \in DOMAIN tbl :
          /\ \A k \in POST_KEYS \ {"sentiment", "sentiment_score"} :
                tbl2[id][k] = tbl[id][k]
          /\ IF id \in BatchIds(batch)
             THEN /\ tbl2[id].sentiment = batch[LastIndex(batch, id)].sentiment
                  /\ tbl2[id].sentiment_score
                        = batch[LastIndex(batch, id)].sentiment_score
             ELSE tbl2[id] = tbl[id]

\* C13: set_tweet_sentiment / set_replies_sentiment change only sentiment
\* and sentiment_score of the rows of the addressed collection whose id is
\* in the batch: every other field and row, the other post collection and
\* users stay as they were, and no row is created for an id not stored.
C13_SentimentUpdateFrame ==
    [][/\ txn'.op = "set_tweet_sentiment" =>
            /\ OnlySentimentOf(tweets, tweets', txn'.batch)
            /\ replies' = replies
            /\ users' = users
       /\ txn'.op = "set_replies_sentiment" =>
            /\ OnlySentimentOf(replies, replies', txn'.batch)
            /\ tweets' = tweets
            /\ users' = users]_vars

\* one call updated a stored post and named an id that is not stored
C13_Witness ==
    /\ txn.op = "set_tweet_sentiment"
    /\ \E i, j \in 1..Len(txn.batch) :
          /\ txn.batch[i].id \in DOMAIN tweets
          /\ tweets[txn.batch[i].id].sentiment = 2
          /\ txn.batch[j].id \notin DOMAIN tweets
    /\ DOMAIN replies # {}

\* the raw posts of the page that carry id, author id and text
WellFormed(rawTweets) ==
    SelectSeq(rawTweets, LAMBDA t : {"id", "author_id", "text"} \subseteq DOMAIN t)

\* C14: parse errors are record-scoped.  Whatever record of the page lacks
\* a required field, the page is processed without an exception and yields
\* one enriched record for each well-formed raw post, in order.
C14_ParseErrorsRecordScoped ==
    (/\ parsed.exc # "pending"
     /\ \A j \in 1..Len(rawPage.users) :
           USER_REQUIRED \subseteq DOMAIN rawPage.users[j]) =>
        /\ parsed.exc = "none"
        /\ Len(parsed.tweets) = Len(WellFormed(rawPage.tweets))
        /\ \A i \in 1..Len(parsed.tweets) :
              /\ parsed.tweets[i].id = WellFormed(rawPage.tweets)[i].id
              /\ "sentiment" \in DOMAIN parsed.tweets[i]

\* C15: hashtags, mentions and urls of a parsed post are each the
\* comma-joined text of the extracted list, and None when that list is
\* empty.
C15_EntityTextOrNull ==
    parsed.exc = "none" =>
        \A i \in 1..Len(parsed.tweets) :
            \A f \in {<<"hashtags", "tag">>, <<"mentions", "username">>,
                       <<"urls", "expanded_url">>} :
                LET list == EntityList(rawPage.tweets[i], f[1], f[2])
                IN  IF list = <<>>
                    THEN parsed.tweets[i][f[1]] = NoneValue
                    ELSE parsed.tweets[i][f[1]] = Str(Join(list))

\* how many of the links equal url
CountOf(links, url) == Cardinality({j \in 1..Len(links) : links[j] = url})

\* C16: a parsed post carries an image count and a video count, the numbers
\* of its extracted urls of the photo and of the video pattern; a url of
\* neither pattern is not counted and stays in urls.
C16_MediaCounts ==
    parsed.exc = "none" =>
        \A i \in 1..Len(parsed.tweets) :
            LET links == EntityList(rawPage.tweets[i], "urls", "expanded_url")
            IN  /\ {"images", "videos"} \subseteq DOMAIN parsed.tweets[i]
                /\ parsed.tweets[i].images = CountOf(links, PHOTO_URL)
                /\ parsed.tweets[i].videos = CountOf(links, VIDEO_URL)
                /\ parsed.tweets[i].urls.text = Join(links)

\* the chunks one after another
RECURSIVE Concat(_)
Concat(chunks) ==
    IF chunks = <<>> THEN <<>> ELSE Head(chunks) \o Concat(Tail(chunks))

\* C17: paged iteration is exact.  Every chunk get_paged_query yields holds
\* between one and batch_size rows, only the last may hold fewer than
\* batch_size; the chunks yielded so far are, in order, the rows fetched so
\* far, and when the generator ends, at its first empty fetch, they are the
\* full result, no row repeated or omitted.
C17_PagedExact ==
    paged.state # "none" =>
        /\ \A i \in 1..Len(paged.pages) :
              /\ Len(paged.pages[i]) >= 1
              /\ Len(paged.pages[i]) <= paged.batch_size
              /\ i < Len(paged.pages) => Len(paged.pages[i]) = paged.batch_size
        /\ Concat(paged.pages) = SubSeq(paged.result, 1, paged.fetched)
        /\ Len(paged.pages) <= Len(paged.result)
        /\ paged.state = "exhausted" => Concat(paged.pages) = paged.result

\* a result went out in several chunks, the last of them a short one
C17_Witness ==
    /\ paged.state = "exhausted"
    /\ Len(paged.pages) >= 2
    /\ Len(paged.pages[Len(paged.pages)]) < paged.batch_size

\* the table op writes, as it was when the process started
TableAtStart(op) ==
    IF op = "insert_tweets" THEN firstTweet
    ELSE IF op = "insert_replies" THEN firstReply
    ELSE lastUser

\* C18: a batch write is atomic with respect to a crash.  After a crash at
\* any point of insert_tweets, insert_replies or insert_users the written
\* table is what it was before the call or what the whole batch makes of
\* it, the other tables are untouched, and after the batch is replayed the
\* table is what one uninterrupted write makes of it.
C18_BatchWriteAtomic ==
    /\ txn.state = "crashed" =>
          \/ TableOf(txn.op) = txn.base
          \/ TableOf(txn.op) = Executemany(txn.op, txn.base, txn.batch)
    /\ txn.state = "replayed" =>
          TableOf(txn.op) = Executemany(txn.op, txn.base, txn.batch)
    /\ txn.state \in {"crashed", "replayed"} =>
          \A op \in WRITES \ {txn.op} : TableOf(op) = TableAtStart(op)

\* the process died after the first of two statements that each add a row
C18_Witness ==
    /\ txn.state = "crashed"
    /\ txn.done = 1
    /\ Len(txn.batch) = 2
    /\ Cardinality(DOMAIN txn.work) = Cardinality(DOMAIN txn.base) + 1
    /\ Cardinality(DOMAIN Executemany(txn.op, txn.base, txn.batch))
          = Cardinality(DOMAIN txn.base) + 2
    /\ TableOf(txn.op) = txn.base

\* the loop of search() is about to send a continuation request
AboutToRequest ==
    /\ spc = "loop"
    /\ NextToken(results) # NULL
    /\ ~LimitReached(limit, tweet_count)

\* C19: burst smoothing.  When a cursor is about to send its next request,
\* the first continuation request included, a second has passed since the
\* request before it, so the limiter has no reason to reject it.
C19_BurstSmoothing ==
    AboutToRequest => InInterval(bucket, SEC) = {}

\* C20: a cursor is finite.  Against a remote serving a finite chain of
\* pages and rejecting finitely often, every search() that is started ends,
\* exhausted or by an exception; and it sends no request once a response
\* came without a continuation marker.
C20_CursorTerminates ==
    /\ (spc = "start") ~> (spc \in {"done", "raised"})
    /\ [][Len(issued') > Len(issued) =>
             (results = 0 \/ NextToken(results) # NULL)]_vars

\* a cursor ended after a rejected request, having taken every page of a
\* chain of several
C20_Witness ==
    /\ spc = "done"
    /\ rejects > 0
    /\ Len(remote) = MaxPages
    /\ results = Len(remote)

\* main holds a page that search() yielded and has not stored yet
PageInHand ==
    /\ mpc \in {"search", "replies"}
    /\ stage \in {"tweets", "users"}
    /\ yielded # <<>>

\* C21: pipeline compatibility.  Every record process_batch_tweets hands to
\* the store has every key its insert statement binds (images, videos and
\* name among them), so no run of main ends in an insert that failed for a
\* missing binding.
C21_PipelineCompatible ==
    /\ exit # "ProgrammingError"
    /\ PageInHand =>
          /\ ~BindingError(POST_KEYS, Processed[1])
          /\ ~BindingError(USER_KEYS, Processed[2])

====
